---- MODULE Spec2Model ----
(***************************************************************************)
(* Model of dizzybot.Dizzybot (src/dizzybot.py): the connection manager    *)
(* (start / stop / health check / fetch / handshake / frames), the message *)
(* dispatcher (respond / send / write) and the ring buffer of recent       *)
(* events.  Every handler runs to completion on the single IOLoop thread,  *)
(* so each handler is one atomic action.                                   *)
(*                                                                         *)
(* Representation.  Python None is the empty sequence: ws = <<>> is        *)
(* `self.ws is None`, ws = <<c>> is a handle on connection c; a return     *)
(* value of None is ret = <<>>, a returned id is ret = <<id>>.  A dict is  *)
(* a function over string keys; a key bound to None is modelled as the key *)
(* missing (d.get(k) is None in both cases).  A str / dict / other message *)
(* argument is the tagged record [str |-> s], [dict |-> d], [other |-> x]. *)
(***************************************************************************)
EXTENDS Integers, Sequences, FiniteSets, TLC

VARIABLES
    ws,         \* self.ws: <<>> or <<c>>
    heartbeat,  \* self.heartbeat is running (PeriodicCallback started)
    recent,     \* self.recent: deque(maxlen=max_recent)
    msg_id,     \* self.msg_id
    callbacks,  \* _rtm_start callbacks queued on the IOLoop by call_later
    fetches,    \* http_client.fetch requests in flight
    handshakes, \* websocket_connect handshakes in flight
    conn,       \* per connection: "none" (never opened), "open", "closing"
                \* (close() called, closure callback pending), "closed"
    wire,       \* history: frames written with write_message, in order
    posted,     \* history: bodies posted with requests.post, in order
    returned,   \* history: ids returned by respond / send / write, in order
    last        \* the handler that ran last: its arguments and its outcome

vars == <<ws, heartbeat, recent, msg_id, callbacks, fetches, handshakes,
          conn, wire, posted, returned, last>>

lifecycle == <<ws, heartbeat, recent, callbacks, fetches, handshakes, conn>>
dispatch  == <<msg_id, wire, posted, returned>>

(***************************************************************************)
(* Bounds of the model.                                                    *)
(***************************************************************************)
\* capacity of the ring buffer (the max_recent argument of the constructor)
max_recent == 2
\* connect cycles that may be in flight together (queued + fetching + handshaking)
MaxInFlight == 2
\* connections ever opened
MaxConns == 2
\* ids ever handed out
MaxMsgs == 2
\* calls of log ever made by the application
MaxLogged == 4

Conns == 1..MaxConns

None == <<>>
NoError == ""

(***************************************************************************)
(* Event Log                                                               *)
(***************************************************************************)
\* faulty variant: a full buffer drops the new entry instead of the oldest one
LogDropNewest(buf, evt) ==
    IF Len(buf) < max_recent THEN Append(buf, evt) ELSE buf

\* Dizzybot.log: self.recent.append(evt) on a deque(maxlen=max_recent)
Log(buf, evt) ==
    IF max_recent = 0 THEN <<>>
    ELSE IF Len(buf) < max_recent THEN Append(buf, evt)
    ELSE Append(Tail(buf), evt)

LogText(text) == [type |-> "log", text |-> text]
LogError(text, err) == [type |-> "log", text |-> text, error |-> err]
LogException(ex) == [type |-> "exception", exception |-> ex]

(***************************************************************************)
(* JSON on the wire: dumps wraps a dict into a text, loads unwraps it and  *)
(* raises ValueError on a text that is no JSON document.                   *)
(***************************************************************************)
Dumps(d) == <<"json", d>>
IsJson(text) == Len(text) = 2 /\ text[1] = "json"
Loads(text) == text[2]
Garbage == <<"not json">>

(***************************************************************************)
(* Application hooks: on_connect / on_event / on_disconnect are overridden *)
(* by the application and either return or raise an Exception.             *)
(***************************************************************************)
\* faulty variant: the call site has no try/except, the hook's exception escapes
TryHookUncaught(buf, hook, raises) ==
    [recent |-> buf, raised |-> IF raises THEN "Exception" ELSE NoError]

\* try: self.on_xxx() except Exception as ex: self.log({'type': 'exception', ...})
TryHook(buf, hook, raises) ==
    [recent |-> IF raises THEN Log(buf, LogException(hook)) ELSE buf,
     raised |-> NoError]

(***************************************************************************)
(* Connection manager                                                      *)
(***************************************************************************)
InFlight == callbacks + fetches + handshakes

\* faulty variant: the test of the handle is inverted
CheckHealthInverted ==
    IF ws # None
    THEN /\ recent' = Log(recent, LogText("reconnecting websocket"))
         /\ callbacks' = callbacks + 1
    ELSE UNCHANGED <<recent, callbacks>>

\* Dizzybot._on_check_health, as an update of (recent, callbacks)
CheckHealth ==
    IF ws = None
    THEN /\ recent' = Log(recent, LogText("reconnecting websocket"))
         /\ callbacks' = callbacks + 1
    ELSE UNCHANGED <<recent, callbacks>>

\* the model stops scheduling connect cycles at MaxInFlight
Schedulable == ws = None => InFlight < MaxInFlight

\* Dizzybot.start
Start ==
    /\ Schedulable
    /\ heartbeat' = TRUE
    /\ CheckHealth
    /\ last' = [op |-> "start", raised |-> NoError]
    /\ UNCHANGED <<ws, fetches, handshakes, conn, dispatch>>

\* the PeriodicCallback fires Dizzybot._on_check_health
OnCheckHealth ==
    /\ heartbeat
    /\ Schedulable
    /\ CheckHealth
    /\ last' = [op |-> "_on_check_health", raised |-> NoError]
    /\ UNCHANGED <<ws, heartbeat, fetches, handshakes, conn, dispatch>>

\* Dizzybot._rtm_start, run by the IOLoop for one call_later(0, ...)
RtmStart ==
    /\ callbacks > 0
    /\ callbacks' = callbacks - 1
    /\ recent' = Log(recent, LogText("fetching websocket url"))
    /\ fetches' = fetches + 1
    /\ last' = [op |-> "_rtm_start", raised |-> NoError]
    /\ UNCHANGED <<ws, heartbeat, handshakes, conn, dispatch>>

\* the responses a fetch completes with: status code and body
Responses ==
    { [code |-> 200, body |-> Dumps([ok |-> TRUE, url |-> "wss://x"])],
      [code |-> 200, body |-> Dumps([ok |-> FALSE])],
      [code |-> 200, body |-> Garbage],
      [code |-> 500, body |-> Garbage] }

\* the failures _on_rtm_start tests for: resp.code >= 400, not info['ok']
FetchFailed(resp) ==
    \/ resp.code >= 400
    \/ IsJson(resp.body) /\ ~Loads(resp.body).ok

\* faulty variant: a failed fetch is logged and the handler returns
OnRtmStartSwallow(resp) ==
    /\ fetches > 0
    /\ fetches' = fetches - 1
    /\ IF resp.code >= 400
       THEN /\ recent' = Log(recent, LogError("failed to fetch websocket url", resp))
            /\ handshakes' = handshakes
            /\ last' = [op |-> "_on_rtm_start", resp |-> resp, raised |-> NoError]
       ELSE IF ~IsJson(resp.body)
       THEN /\ UNCHANGED <<recent, handshakes>>
            /\ last' = [op |-> "_on_rtm_start", resp |-> resp, raised |-> "ValueError"]
       ELSE IF ~Loads(resp.body).ok
       THEN /\ recent' = Log(recent, LogError("rtm.connect failed", Loads(resp.body)))
            /\ handshakes' = handshakes
            /\ last' = [op |-> "_on_rtm_start", resp |-> resp, raised |-> NoError]
       ELSE /\ recent' = Log(recent, LogText("connecting to websocket url"))
            /\ handshakes' = handshakes + 1
            /\ last' = [op |-> "_on_rtm_start", resp |-> resp, raised |-> NoError]
    /\ UNCHANGED <<ws, heartbeat, callbacks, conn, dispatch>>

\* Dizzybot._on_rtm_start, the callback of http_client.fetch
OnRtmStart(resp) ==
    /\ fetches > 0
    /\ fetches' = fetches - 1
    /\ IF resp.code >= 400
       THEN /\ recent' = Log(recent, LogError("failed to fetch websocket url", resp))
            /\ handshakes' = handshakes
            /\ last' = [op |-> "_on_rtm_start", resp |-> resp, raised |-> "RuntimeError"]
       ELSE IF ~IsJson(resp.body)
       THEN /\ UNCHANGED <<recent, handshakes>>
            /\ last' = [op |-> "_on_rtm_start", resp |-> resp, raised |-> "ValueError"]
       ELSE IF ~Loads(resp.body).ok
       THEN /\ recent' = Log(recent, LogError("rtm.connect failed", Loads(resp.body)))
            /\ handshakes' = handshakes
            /\ last' = [op |-> "_on_rtm_start", resp |-> resp, raised |-> "RuntimeError"]
       ELSE /\ recent' = Log(recent, LogText("connecting to websocket url"))
            /\ handshakes' = handshakes + 1
            /\ last' = [op |-> "_on_rtm_start", resp |-> resp, raised |-> NoError]
    /\ UNCHANGED <<ws, heartbeat, callbacks, conn, dispatch>>

\* the connection a successful handshake yields: the first one never opened
NewConn == CHOOSE c \in Conns : conn[c] = "none" /\ \A d \in Conns : d < c => conn[d] # "none"

\* Dizzybot._on_ws_connect, the callback of websocket_connect: future.result()
\* is the new connection (ok) or raises the handshake's error
OnWsConnect(ok, raises) ==
    /\ handshakes > 0
    /\ ok => \E c \in Conns : conn[c] = "none"
    /\ handshakes' = handshakes - 1
    /\ IF ok
       THEN LET h == TryHook(Log(recent, LogText("connected to websocket url")),
                             "on_connect", raises)
            IN  /\ ws' = <<NewConn>>
                /\ conn' = [conn EXCEPT ![NewConn] = "open"]
                /\ recent' = h.recent
                /\ last' = [op |-> "_on_ws_connect", ok |-> TRUE, hook |-> raises,
                            raised |-> h.raised]
       ELSE /\ recent' = Log(recent, LogText("connected to websocket url"))
            /\ last' = [op |-> "_on_ws_connect", ok |-> FALSE, hook |-> FALSE,
                        raised |-> "ConnectError"]
            /\ UNCHANGED <<ws, conn>>
    /\ UNCHANGED <<heartbeat, callbacks, fetches, dispatch>>

\* faulty variant: on_disconnect is called before the handle is cleared
HandleAtDisconnectKept == ws

\* the value of self.ws that on_disconnect finds: _on_ws_message(None) executes
\* self.ws = None before it calls the hook
HandleAtDisconnect == None

\* Dizzybot._on_ws_message, the on_message_callback of connection c: msg is a
\* frame's text, or None once the connection has closed
OnWsMessage(c, msg, raises) ==
    /\ IF msg = None THEN conn[c] \in {"open", "closing"} ELSE conn[c] = "open"
    /\ IF msg = None
       THEN LET h == TryHook(Log(recent, LogText("disconnected from websocket")),
                             "on_disconnect", raises)
            IN  /\ conn' = [conn EXCEPT ![c] = "closed"]
                /\ ws' = None
                /\ recent' = h.recent
                /\ last' = [op |-> "_on_ws_message", conn |-> c, msg |-> msg,
                            hook |-> raises, raised |-> h.raised,
                            called |-> <<[hook |-> "on_disconnect",
                                          ws |-> HandleAtDisconnect]>>]
       ELSE IF ~IsJson(msg)
       THEN /\ last' = [op |-> "_on_ws_message", conn |-> c, msg |-> msg,
                        hook |-> FALSE, raised |-> "ValueError"]
            /\ UNCHANGED <<ws, conn, recent>>
       ELSE LET h == TryHook(Log(recent, Loads(msg)), "on_event", raises)
            IN  /\ recent' = h.recent
                /\ last' = [op |-> "_on_ws_message", conn |-> c, msg |-> msg,
                            hook |-> raises, raised |-> h.raised]
                /\ UNCHANGED <<ws, conn>>
    /\ UNCHANGED <<heartbeat, callbacks, fetches, handshakes, dispatch>>

\* faulty variant: stop halts the timer and closes the connection but keeps the handle
StopKeepsHandle ==
    /\ heartbeat' = FALSE
    /\ IF ws # None
       THEN conn' = [conn EXCEPT ![ws[1]] = "closing"]
       ELSE conn' = conn
    /\ ws' = ws
    /\ last' = [op |-> "stop", raised |-> NoError]
    /\ UNCHANGED <<recent, callbacks, fetches, handshakes, dispatch>>

\* Dizzybot.stop (also run by __del__)
Stop ==
    /\ heartbeat' = FALSE
    /\ IF ws # None
       THEN conn' = [conn EXCEPT ![ws[1]] = "closing"]
       ELSE conn' = conn
    /\ ws' = None
    /\ last' = [op |-> "stop", raised |-> NoError]
    /\ UNCHANGED <<recent, callbacks, fetches, handshakes, dispatch>>

(***************************************************************************)
(* Message dispatcher                                                      *)
(***************************************************************************)
\* d.get(k, default)
Get(d, k, default) == IF k \in DOMAIN d THEN d[k] ELSE default

\* Dizzybot.post_message: the body handed to requests.post
PostMessage(m) == ("as_user" :> TRUE) @@ m

\* isinstance(msg, dict) / isinstance(msg, str)
IsDict(msg) == "dict" \in DOMAIN msg
IsStr(msg) == "str" \in DOMAIN msg

\* faulty variant: the envelope's own fields win over the caller's
BuildBaseWins(base, msg) ==
    IF IsDict(msg) THEN base @@ msg.dict ELSE ("text" :> msg.str) @@ base

\* full_msg.update(msg) for a dict, full_msg['text'] = msg for a str
Build(base, msg) ==
    IF IsDict(msg) THEN msg.dict @@ base ELSE ("text" :> msg.str) @@ base

\* faulty variant: the counter is incremented before the call raises
RaiseAfterCount(error) ==
    [raised |-> error, ret |-> None, id |-> msg_id + 1, wrote |-> <<>>, posted |-> <<>>]

\* the outcome of a call that raises before anything is sent
Raise(error) ==
    [raised |-> error, ret |-> None, id |-> msg_id, wrote |-> <<>>, posted |-> <<>>]

\* the outcome of a call that returns None before anything is built
ReturnNone ==
    [raised |-> NoError, ret |-> None, id |-> msg_id, wrote |-> <<>>, posted |-> <<>>]

\* faulty variant: the counter is incremented before the message is handed to the transport
DeliverCountsFirst(full_msg, rich) ==
    IF rich
    THEN [raised |-> NoError, ret |-> <<msg_id>>, id |-> msg_id + 1,
          wrote |-> <<>>, posted |-> <<PostMessage(full_msg)>>]
    ELSE IF ws = None
    THEN [raised |-> "AttributeError", ret |-> None, id |-> msg_id + 1,
          wrote |-> <<>>, posted |-> <<>>]
    ELSE [raised |-> NoError, ret |-> <<msg_id>>, id |-> msg_id + 1,
          wrote |-> <<[conn |-> ws[1], text |-> Dumps(full_msg)]>>, posted |-> <<>>]

\* faulty variant: with no handle the message is dropped and the call returns its id
DeliverDropsSilently(full_msg, rich) ==
    IF rich
    THEN [raised |-> NoError, ret |-> <<msg_id>>, id |-> msg_id + 1,
          wrote |-> <<>>, posted |-> <<PostMessage(full_msg)>>]
    ELSE IF ws = None
    THEN [raised |-> NoError, ret |-> <<msg_id>>, id |-> msg_id + 1,
          wrote |-> <<>>, posted |-> <<>>]
    ELSE [raised |-> NoError, ret |-> <<msg_id>>, id |-> msg_id + 1,
          wrote |-> <<[conn |-> ws[1], text |-> Dumps(full_msg)]>>, posted |-> <<>>]

\* the tail of respond and send: post_message when rich, else
\* self.ws.write_message(json.dumps(full_msg)); then self.msg_id += 1
Deliver(full_msg, rich) ==
    IF rich
    THEN [raised |-> NoError, ret |-> <<msg_id>>, id |-> msg_id + 1,
          wrote |-> <<>>, posted |-> <<PostMessage(full_msg)>>]
    ELSE IF ws = None
    THEN Raise("AttributeError")
    ELSE [raised |-> NoError, ret |-> <<msg_id>>, id |-> msg_id + 1,
          wrote |-> <<[conn |-> ws[1], text |-> Dumps(full_msg)]>>, posted |-> <<>>]

\* a dispatcher call and its outcome, as the record of the last handler
Called(call, out) ==
    call @@ [raised |-> out.raised, ret |-> out.ret,
             wrote |-> out.wrote, posted |-> out.posted]

\* a dispatcher call's outcome applied to the state (the model hands out ids up
\* to MaxMsgs)
Outcome(out) ==
    /\ out.id <= MaxMsgs
    /\ msg_id' = out.id
    /\ wire' = wire \o [i \in 1..Len(out.wrote) |-> Loads(out.wrote[i].text).id]
    /\ posted' = posted \o [i \in 1..Len(out.posted) |-> out.posted[i].id]
    /\ returned' = returned \o out.ret
    /\ UNCHANGED lifecycle

\* faulty variant: the gate looks at the event's type only
RespondsToTypeOnly(evt) == Get(evt, "type", "") = "message"

\* the gate of respond: evt.get('type') == 'message' and evt.get('reply_to') is None
RespondsTo(evt) == Get(evt, "type", "") = "message" /\ "reply_to" \notin DOMAIN evt

\* faulty variant: the reply is always anchored at the event's own timestamp
ThreadAnchorTsOnly(evt) == Get(evt, "ts", "null")

\* evt.get('thread_ts', evt.get('ts'))
ThreadAnchor(evt) == Get(evt, "thread_ts", Get(evt, "ts", "null"))

\* Dizzybot.respond
Respond(evt, msg, thread, rich) ==
    LET base == [id |-> msg_id, type |-> "message", channel |-> evt.channel]
        full == Build(base, msg)
        out == IF ~RespondsTo(evt) THEN ReturnNone
               ELSE IF ~(IsDict(msg) \/ IsStr(msg)) THEN Raise("TypeError")
               ELSE Deliver(IF thread
                            THEN ("thread_ts" :> ThreadAnchor(evt)) @@ full
                            ELSE full, rich)
    IN  /\ Outcome(out)
        /\ last' = Called([op |-> "respond", evt |-> evt, msg |-> msg,
                           thread |-> thread, rich |-> rich, live |-> ws # None], out)

\* Dizzybot.send
Send(msg, channel, rich) ==
    LET base == [id |-> msg_id, type |-> "message", channel |-> channel]
        out == IF ~(IsDict(msg) \/ IsStr(msg)) THEN Raise("TypeError")
               ELSE Deliver(Build(base, msg), rich)
    IN  /\ Outcome(out)
        /\ last' = Called([op |-> "send", msg |-> msg, channel |-> channel,
                           rich |-> rich, live |-> ws # None], out)

\* Dizzybot.write: msg['id'] = msg_id, then both branches name full_msg, which
\* write never binds: NameError
Write(msg, rich) ==
    /\ Outcome(Raise("NameError"))
    /\ last' = Called([op |-> "write", msg |-> ("id" :> msg_id) @@ msg,
                       rich |-> rich, live |-> ws # None], Raise("NameError"))

(***************************************************************************)
(* Inputs                                                                  *)
(***************************************************************************)
\* events handed to respond
Events ==
    { [type |-> "message", channel |-> "C1", ts |-> "1.0"],
      [type |-> "message", channel |-> "C1", ts |-> "2.0", thread_ts |-> "1.0"],
      [type |-> "message", channel |-> "C1"],
      [type |-> "message", channel |-> "C1", ts |-> "3.0", reply_to |-> 1],
      [type |-> "user_typing", channel |-> "C1"],
      [type |-> "hello"],
      [channel |-> "C1", ts |-> "4.0"] }

\* message arguments: a str, a dict, a dict that carries its own id, an int
Msgs ==
    { [str |-> "hi"],
      [dict |-> [text |-> "yo"]],
      [dict |-> [text |-> "yo", id |-> 99]],
      [other |-> 42] }

\* envelopes handed to write
RawMsgs == { [type |-> "message", channel |-> "C2", text |-> "raw"] }

Channels == {"C1"}

\* what a connection delivers to on_message_callback: an event, or a text
\* that is no JSON document
Frames ==
    { Dumps([type |-> "message", channel |-> "C1", ts |-> "1.0"]),
      Garbage }

(***************************************************************************)
(* Specifications                                                          *)
(***************************************************************************)
\* Dizzybot.__init__
Init ==
    /\ ws = None
    /\ heartbeat = FALSE
    /\ recent = <<>>
    /\ msg_id = 0
    /\ callbacks = 0
    /\ fetches = 0
    /\ handshakes = 0
    /\ conn = [c \in Conns |-> "none"]
    /\ wire = <<>>
    /\ posted = <<>>
    /\ returned = <<>>
    /\ last = [op |-> "__init__", raised |-> NoError]

\* the connection manager, under every response, handshake result, frame and
\* hook behaviour
NextManager ==
    \/ Start
    \/ OnCheckHealth
    \/ RtmStart
    \/ \E resp \in Responses : OnRtmStart(resp)
    \/ \E ok \in BOOLEAN, raises \in BOOLEAN : OnWsConnect(ok, raises)
    \/ \E c \in Conns, msg \in Frames \cup {None}, raises \in BOOLEAN :
          OnWsMessage(c, msg, raises)
    \/ Stop

SpecManager == Init /\ [][NextManager]_vars

\* the dispatcher, called at every point of a client's normal run: start()
\* once, one connect cycle at a time, each succeeding, and closures that the
\* health check repairs
NextDispatcher ==
    \/ ~heartbeat /\ Start
    \/ InFlight = 0 /\ OnCheckHealth
    \/ RtmStart
    \/ \E resp \in {r \in Responses : ~FetchFailed(r) /\ IsJson(r.body)} : OnRtmStart(resp)
    \/ OnWsConnect(TRUE, FALSE)
    \/ \E c \in Conns : OnWsMessage(c, None, FALSE)
    \/ \E evt \in Events, msg \in Msgs, thread \in BOOLEAN, rich \in BOOLEAN :
          Respond(evt, msg, thread, rich)
    \/ \E msg \in Msgs, channel \in Channels, rich \in BOOLEAN : Send(msg, channel, rich)
    \/ \E msg \in RawMsgs, rich \in BOOLEAN : Write(msg, rich)

SpecDispatcher == Init /\ [][NextDispatcher]_vars

\* the response of a fetch that succeeds
OkResponse == [code |-> 200, body |-> Dumps([ok |-> TRUE, url |-> "wss://x"])]

\* a started client that is never stopped: fetches and handshakes fail or
\* succeed, connections close
NextLive ==
    \/ Start
    \/ OnCheckHealth
    \/ RtmStart
    \/ \E resp \in {r \in Responses : r.code >= 400} \cup {OkResponse} : OnRtmStart(resp)
    \/ \E ok \in BOOLEAN : OnWsConnect(ok, FALSE)
    \/ \E c \in Conns : OnWsMessage(c, None, FALSE)

\* the PeriodicCallback keeps firing and the IOLoop runs the callbacks queued
\* on it (weak fairness); a fetch and a handshake that are retried for ever
\* succeed at some point (strong fairness)
SpecLive ==
    /\ Init
    /\ [][NextLive]_vars
    /\ WF_vars(OnCheckHealth)
    /\ WF_vars(RtmStart)
    /\ SF_vars(OnRtmStart(OkResponse))
    /\ SF_vars(OnWsConnect(TRUE, FALSE))

\* the events an application stores with log
Entries == {LogText("a"), LogText("b"), [type |-> "message", ts |-> "1.0"]}

\* the events stored so far, in order of arrival
Logged == IF last.op = "log" THEN last.all ELSE <<>>

\* Dizzybot.log(evt), called by the application
Record(evt) ==
    /\ Len(Logged) < MaxLogged
    /\ recent' = Log(recent, evt)
    /\ last' = [op |-> "log", evt |-> evt, all |-> Append(Logged, evt), raised |-> NoError]
    /\ UNCHANGED <<ws, heartbeat, callbacks, fetches, handshakes, conn, dispatch>>

\* the ring buffer alone, under every sequence of log calls
NextLog == \E evt \in Entries : Record(evt)

SpecLog == Init /\ [][NextLog]_vars

(***************************************************************************)
(* Properties                                                              *)
(***************************************************************************)
LastEntry(buf) == buf[Len(buf)]
LifecycleOps == {"start", "_on_check_health"}
DispatcherOps == {"respond", "send", "write"}

\* the gate of respond as the interface states it: a "message" event that is
\* not itself a reply
GateOpen(evt) == "type" \in DOMAIN evt /\ evt.type = "message" /\ "reply_to" \notin DOMAIN evt

\* C1: at most one active streaming connection per client: in every reachable
\* state, every connection that was opened and is not closed is the one the
\* handle holds.
C1_AtMostOneActive ==
    \A c \in Conns : conn[c] = "open" => ws = <<c>>

\* C2: the ids returned by the successful respond / send / write calls are
\* 0, 1, 2, ... in call order, and the counter equals the number of ids returned.
C2_ReturnedIdsCountUp ==
    /\ Len(returned) = msg_id
    /\ \A i \in 1..Len(returned) : returned[i] = i - 1

\* C2 witness: two ids were returned, one by a streaming write and one by a
\* rich post, and the call after them failed.
C2_Witness ==
    /\ returned = <<0, 1>>
    /\ Len(wire) = 1 /\ Len(posted) = 1
    /\ last.op \in DispatcherOps /\ last.raised # NoError

\* C3: a handshake that was in flight when stop() ran and completes
\* successfully right after it is ignored or closed at once: the handle stays
\* absent and the connection it yields does not stay open.
C3_LateHandshakeDropped ==
    [][ (last.op = "stop" /\ handshakes > 0 /\ last'.op = "_on_ws_connect" /\ last'.ok)
          => ( /\ ws' = None
               /\ \A c \in Conns : conn'[c] = "open" => conn[c] = "open" )
      ]_vars

\* C4: a non-rich send, or a non-rich respond that passes its gate, made with
\* the handle absent fails with an error raised to the caller, leaves the
\* counter unchanged and queues nothing: a frame is only ever written inside a
\* dispatcher call that succeeds.
C4_AbsentHandleSendFails ==
    [][ /\ ( /\ last'.op \in {"send", "respond"}
             /\ ~last'.rich
             /\ ws = None
             /\ (last'.op = "respond" => GateOpen(last'.evt)) )
          => ( /\ last'.raised # NoError
               /\ last'.ret = None
               /\ last'.wrote = <<>> /\ last'.posted = <<>>
               /\ UNCHANGED <<msg_id, wire, posted, returned>> )
        /\ wire' # wire
          => ( /\ last'.op \in DispatcherOps
               /\ last'.raised = NoError
               /\ Len(last'.wrote) = 1
               /\ ws # None /\ last'.wrote[1].conn = ws[1] )
      ]_vars

\* C4 witness: a non-rich send of a valid message failed for lack of a handle
\* after an earlier call had succeeded.
C4_Witness ==
    /\ last.op = "send" /\ ~last.rich /\ ~last.live
    /\ IsStr(last.msg)
    /\ last.raised = "AttributeError"
    /\ msg_id = 1 /\ wire = <<>>

\* C5 as claimed: a fetch completion that reports failure raises no error out
\* of the fetch-completion handler.
C5_FetchFailureSwallowed ==
    (last.op = "_on_rtm_start" /\ FetchFailed(last.resp)) => last.raised = NoError

\* C5 as amended: a fetch completion that reports failure appends its log entry
\* (with the error attached), starts no handshake, and then raises RuntimeError
\* out of the fetch-completion handler.
C5_FetchFailureLoggedThenRaised ==
    [][ (last'.op = "_on_rtm_start" /\ FetchFailed(last'.resp))
          => ( /\ last'.raised = "RuntimeError"
               /\ recent' # <<>>
               /\ LastEntry(recent').type = "log"
               /\ "error" \in DOMAIN LastEntry(recent')
               /\ recent' = Log(recent, LastEntry(recent'))
               /\ handshakes' = handshakes )
      ]_vars

\* C5 witness: a fetch completed with status 500 and the handler raised.
C5_Witness ==
    /\ last.op = "_on_rtm_start"
    /\ last.resp.code = 500
    /\ last.raised = "RuntimeError"

\* C6: a failed fetch completion appends exactly one log-tagged entry, does
\* not touch the handle (an absent handle stays absent) and starts neither a
\* handshake nor a fetch; a fetch is only ever issued for a health check (tick
\* or start()) that found the handle absent, and every such health check
\* schedules one.
C6_RetryOnlyOnHealthCheck ==
    [][ /\ (last'.op = "_on_rtm_start" /\ FetchFailed(last'.resp))
          => ( /\ recent' # <<>>
               /\ LastEntry(recent').type = "log"
               /\ recent' = Log(recent, LastEntry(recent'))
               /\ ws' = ws
               /\ handshakes' = handshakes
               /\ callbacks' = callbacks
               /\ fetches' = fetches - 1 )
        /\ fetches' > fetches
          => (last'.op = "_rtm_start" /\ callbacks' = callbacks - 1)
        /\ callbacks' > callbacks
          => (last'.op \in LifecycleOps /\ ws = None)
        /\ (last'.op \in LifecycleOps /\ ws = None)
          => (callbacks' = callbacks + 1 /\ ws' = None)
        /\ last'.op = "_rtm_start"
          => fetches' = fetches + 1
      ]_vars

\* C6 witness: the fetch issued for a health check failed (ok flag false), the
\* handle is absent, no cycle is in flight and the timer is running.
C6_Witness ==
    /\ last.op = "_on_rtm_start"
    /\ FetchFailed(last.resp) /\ last.resp.code = 200
    /\ ws = None
    /\ InFlight = 0
    /\ heartbeat

\* C7: an exception raised by on_connect, on_event or on_disconnect does not
\* leave the handler: exactly one exception-tagged entry follows the handler's
\* own entry in the log, the handle is stored (connect) or cleared (disconnect)
\* or left alone (event), and the rest of the state is what it is when the hook
\* returns.
C7_HookExceptionsCaught ==
    [][ (last'.op \in {"_on_ws_connect", "_on_ws_message"} /\ last'.hook)
          => /\ last'.raised = NoError
             /\ UNCHANGED <<heartbeat, callbacks, fetches, dispatch>>
             /\ IF last'.op = "_on_ws_connect"
                THEN /\ recent' = Log(Log(recent, LogText("connected to websocket url")),
                                      LogException("on_connect"))
                     /\ ws' # None /\ conn[ws'[1]] = "none" /\ conn'[ws'[1]] = "open"
                     /\ handshakes' = handshakes - 1
                ELSE IF last'.msg = None
                THEN /\ recent' = Log(Log(recent, LogText("disconnected from websocket")),
                                      LogException("on_disconnect"))
                     /\ ws' = None
                     /\ conn'[last'.conn] = "closed"
                     /\ handshakes' = handshakes
                ELSE /\ recent' = Log(Log(recent, Loads(last'.msg)),
                                      LogException("on_event"))
                     /\ ws' = ws /\ conn' = conn
                     /\ handshakes' = handshakes
      ]_vars

\* C7 witness: on_connect raised, the handle is stored and the last log entry
\* is the exception entry.
C7_Witness ==
    /\ last.op = "_on_ws_connect" /\ last.hook
    /\ ws # None
    /\ recent # <<>> /\ LastEntry(recent) = LogException("on_connect")

\* C8: stop() leaves the handle absent and the timer halted and closes the
\* connection the handle held; stop() on a stopped client changes nothing;
\* start() after stop() restarts the timer and performs one health check, which
\* schedules a fetch since the handle is absent.
C8_StopThenStart ==
    [][ /\ last'.op = "stop"
          => ( /\ ws' = None
               /\ ~heartbeat'
               /\ \A c \in Conns :
                     conn'[c] = IF ws = <<c>> THEN "closing" ELSE conn[c]
               /\ UNCHANGED <<recent, callbacks, fetches, handshakes, dispatch>> )
        /\ (last'.op = "stop" /\ (last.op = "stop" \/ (ws = None /\ ~heartbeat)))
          => UNCHANGED <<lifecycle, dispatch>>
        /\ (last.op = "stop" /\ last'.op = "start")
          => ( /\ heartbeat'
               /\ ws' = None
               /\ callbacks' = callbacks + 1
               /\ recent' = Log(recent, LogText("reconnecting websocket")) )
      ]_vars

\* C8 witness: start() ran on a stopped client whose stop() had closed a live
\* connection: the timer runs again and one fetch is scheduled.
C8_Witness ==
    /\ last.op = "start"
    /\ heartbeat
    /\ ws = None
    /\ callbacks = 1 /\ fetches = 0 /\ handshakes = 0
    /\ \E c \in Conns : conn[c] = "closing"

\* C9: write(message) with a live handle, or with rich=true, delivers the
\* envelope on the chosen path, increments the counter once and returns the id.
C9_WriteDelivers ==
    (last.op = "write" /\ (last.rich \/ last.live))
      => ( /\ last.raised = NoError
           /\ last.ret = <<msg_id - 1>>
           /\ Len(last.wrote) + Len(last.posted) = 1 )

\* C10: respond on an event whose type is not "message" or whose reply_to is
\* set returns None and changes nothing, whatever the message argument is.
C10_GatedRespondIsNoOp ==
    [][ (last'.op = "respond" /\ ~GateOpen(last'.evt))
          => ( /\ last'.ret = None
               /\ last'.raised = NoError
               /\ last'.wrote = <<>> /\ last'.posted = <<>>
               /\ UNCHANGED <<lifecycle, dispatch>> )
      ]_vars

\* C10 witness: respond on a reply event with an unsupported message argument
\* returned None without an error.
C10_Witness ==
    /\ last.op = "respond"
    /\ Get(last.evt, "type", "") = "message" /\ "reply_to" \in DOMAIN last.evt
    /\ ~IsDict(last.msg) /\ ~IsStr(last.msg)
    /\ last.ret = None /\ last.raised = NoError

\* C11: send, or respond on an event that passes the gate, called with a
\* message that is neither a str nor a dict raises TypeError to the caller and
\* leaves the state unchanged: counter, transport, histories and log.
C11_UnsupportedMessageRaises ==
    [][ ( /\ last'.op \in {"send", "respond"}
          /\ (last'.op = "respond" => GateOpen(last'.evt))
          /\ "str" \notin DOMAIN last'.msg
          /\ "dict" \notin DOMAIN last'.msg )
          => ( /\ last'.raised = "TypeError"
               /\ last'.ret = None
               /\ last'.wrote = <<>> /\ last'.posted = <<>>
               /\ UNCHANGED <<lifecycle, dispatch>> )
      ]_vars

\* C11 witness: a rich respond on a message event, with an int as message,
\* raised TypeError after an earlier call had been given id 0.
C11_Witness ==
    /\ last.op = "respond"
    /\ GateOpen(last.evt)
    /\ last.msg = [other |-> 42]
    /\ last.rich
    /\ last.raised = "TypeError"
    /\ msg_id = 1

\* C12: a rich send / respond / write has one outcome whatever the state of the
\* handle: one HTTP post with the assigned id, that id returned, the counter
\* incremented by one, no streaming write.
C12_RichDeliveryPosts ==
    ( /\ last.op \in DispatcherOps
      /\ last.rich
      /\ (last.op = "respond" => GateOpen(last.evt))
      /\ (last.op # "write" => ("str" \in DOMAIN last.msg \/ "dict" \in DOMAIN last.msg)) )
      => ( /\ last.raised = NoError
           /\ last.ret = <<msg_id - 1>>
           /\ Len(last.posted) = 1
           /\ last.wrote = <<>> )

\* C13: once started and not stopped, an absent handle with no handshake
\* pending leads to a fetch in flight, and, as long as a connection is left to
\* open in the model, an absent handle leads to Connected: after start() and
\* after every closure.
C13_Reconnects ==
    /\ (heartbeat /\ ws = None /\ handshakes = 0) ~> (fetches > 0)
    /\ (heartbeat /\ ws = None /\ \E c \in Conns : conn[c] = "none") ~> (ws # None)

\* C13 witness: a connection was closed and the client is connected again on
\* another one.
C13_Witness ==
    /\ heartbeat
    /\ last.op = "_on_ws_connect" /\ last.ok
    /\ ws # None
    /\ \E c \in Conns : conn[c] = "closed"

\* the last n elements of a sequence
LastN(s, n) == SubSeq(s, Len(s) - n + 1, Len(s))
Min(a, b) == IF a < b THEN a ELSE b

\* C14: after N calls of log on a buffer of capacity max_recent, the buffer
\* holds exactly the last min(N, max_recent) stored events in order of arrival,
\* and log raises nothing.
C14_RingBuffer ==
    last.op = "log" =>
        /\ recent = LastN(last.all, Min(Len(last.all), max_recent))
        /\ last.raised = NoError

\* a full buffer has evicted its oldest event
C14_Witness ==
    /\ last.op = "log"
    /\ Len(last.all) > max_recent
    /\ Len(recent) = max_recent
    /\ recent[1] # last.all[1]

\* C15: start() is idempotent: a call of start() while the timer is already
\* running leaves the handle, the timer status and the number of connect
\* cycles in flight as they were.
C15_StartIdempotent ==
    [][(heartbeat /\ last'.op = "start") =>
          (ws' = ws /\ heartbeat' = heartbeat /\ InFlight' = InFlight)]_vars

\* the envelopes the last call handed to a transport: written or posted
Transmitted == {Loads(last.wrote[i].text) : i \in 1..Len(last.wrote)}
                   \cup {last.posted[i] : i \in 1..Len(last.posted)}

\* the last call's message is a structured payload with an id of its own
CarriesId == IsDict(last.msg) /\ "id" \in DOMAIN last.msg.dict

\* C16 as stated: every envelope transmitted by send / respond / write carries
\* the id returned to the caller, for plain-text and structured payloads alike.
C16_WireIdIsReturnedId ==
    last.op \in DispatcherOps =>
        \A e \in Transmitted : last.ret # None /\ e.id = last.ret[1]

\* C16 amended: a transmitting call returns the id it was assigned, the value
\* of the counter before the call, and its envelope carries that id unless the
\* structured payload has an id of its own, which is then the id transmitted.
C16_WireIdUnlessOverridden ==
    last.op \in DispatcherOps =>
        \A e \in Transmitted :
            /\ last.ret = <<msg_id - 1>>
            /\ e.id = IF CarriesId THEN last.msg.dict.id ELSE last.ret[1]

\* a structured payload with its own id went out on the connection under that
\* id while the caller got the counter's value
C16_Witness ==
    /\ last.op = "send"
    /\ CarriesId
    /\ Len(last.wrote) = 1
    /\ Loads(last.wrote[1].text).id = last.msg.dict.id
    /\ last.ret = <<msg_id - 1>>
    /\ last.ret[1] # last.msg.dict.id

\* the last handler was _on_ws_message(None) on connection c
Closure(c) == last.op = "_on_ws_message" /\ last.msg = None /\ last.conn = c

\* C17: a closure signal from the connection the handle holds clears the
\* handle, appends exactly one log entry (and an exception entry only if the
\* hook raised), calls on_disconnect exactly once, with the handle already
\* absent, and starts nothing: the cycles queued, fetching and handshaking are
\* as before, and a cycle is queued by start / the health check only.
C17_ClosureWhileConnected ==
    [][/\ \A c \in Conns : (ws = <<c>> /\ Closure(c)') =>
              /\ ws' = None
              /\ recent' = LET logged == Log(recent, LogText("disconnected from websocket"))
                           IN  IF last'.hook THEN Log(logged, LogException("on_disconnect"))
                               ELSE logged
              /\ last'.called = <<[hook |-> "on_disconnect", ws |-> None]>>
              /\ last'.raised = NoError
              /\ UNCHANGED <<heartbeat, callbacks, fetches, handshakes>>
       /\ callbacks' > callbacks => last'.op \in LifecycleOps
       /\ fetches' > fetches => callbacks' < callbacks]_vars

\* the connection held by the handle has signalled its closure
C17_Witness ==
    /\ \E c \in Conns : Closure(c) /\ conn[c] = "closed"
    /\ ws = None
    /\ heartbeat
    /\ LastEntry(recent) = LogText("disconnected from websocket")

\* C18: a closure signal from a connection other than the one the handle holds
\* (a superseded connection, or the connection stop() closed, signalling after a
\* later start() has connected again) leaves the live handle in place and
\* calls no disconnect hook.
C18_StaleClosureKeepsHandle ==
    [][\A c \in Conns : (ws # None /\ ws # <<c>> /\ Closure(c)') =>
           (ws' = ws /\ last'.called = <<>>)]_vars

\* C19: a handshake completion that reports failure leaves the handle as it
\* was, calls no connect hook and appends no entry to the Event Log: the
\* 'connected' entry is appended only when the handle is stored.
C19_FailedHandshakeLogsNothing ==
    [][(last'.op = "_on_ws_connect" /\ ~last'.ok) =>
           (ws' = ws /\ recent' = recent)]_vars

\* C20: an envelope sent by respond with thread = TRUE carries as thread_ts the
\* event's thread_ts when the event has one, else the event's ts (null when
\* the event has neither); with thread = FALSE it carries a thread_ts only if
\* the structured payload brought one.
C20_ThreadAnchor ==
    last.op = "respond" =>
        \A e \in Transmitted :
            IF last.thread
            THEN /\ "thread_ts" \in DOMAIN e
                 /\ e.thread_ts = IF "thread_ts" \in DOMAIN last.evt THEN last.evt.thread_ts
                                  ELSE IF "ts" \in DOMAIN last.evt THEN last.evt.ts
                                  ELSE "null"
            ELSE "thread_ts" \in DOMAIN e
                     <=> (IsDict(last.msg) /\ "thread_ts" \in DOMAIN last.msg.dict)

\* a reply to an event inside a thread went out anchored at the thread, not at
\* the event's own timestamp
C20_Witness ==
    /\ last.op = "respond"
    /\ last.thread
    /\ "thread_ts" \in DOMAIN last.evt
    /\ last.evt.thread_ts # last.evt.ts
    /\ Len(last.wrote) = 1
    /\ Loads(last.wrote[1].text).thread_ts = last.evt.thread_ts

====
